---- MODULE Spec2Model ----
(***************************************************************************)
(* Model of add_geomark_py3.py: add_geomark_url(in_fc) run one or more     *)
(* times on the same dataset.  The dataset is a sequence of records, each  *)
(* with a GeomarkURL text value and a geometry.  The Geomark web service   *)
(* is the environment: each POST either raises (transport failure) or      *)
(* returns a response with a status code and a resolved URL.               *)
(***************************************************************************)
EXTENDS Integers, Sequences, FiniteSets, TLC

(* ---------- bounds ---------- *)
MaxRows == 2
MaxRuns == 2

(* ---------- values ---------- *)
\* Python None, for a field value or a geometry.
None == "<None>"

\* The local r before any assignment in the call: the empty sequence.  Once
\* session.post has returned, r is the one-element sequence of its response.
Unassigned == <<>>

\* line 68 and line 79: the request endpoint
post_url == "https://apps.gov.bc.ca/pub/geomark/geomarks/new"

\* line 65
NullGeometryMsg == "Null geometry"

\* line 76
RequestFailedMsg == "Geomark Web Service request failed - try running the tool again"

\* line 80
CouldNotCreateMsg == "Could not create Geomark URL for this geometry"

\* line 85: the f-string with the response's status code
StatusMsg(status_code) ==
    "Geomark Web Service returned status code " \o ToString(status_code)
        \o "; try running the tool again"

\* Field values a dataset may hold before a run: null, empty, one space,
\* two spaces, a tab, and a value left by an earlier edit.
ExistingValues == {None, "", " ", "  ", "\t", "https://apps.gov.bc.ca/pub/geomark/geomarks/gm-OLD"}

\* Whitespace-only strings among the values above.
WhitespaceOnly == {"", " ", "  ", "\t"}

\* SHAPE@ values: a null geometry or a geometry object.
Geometries == {None, "POLYGON"}

\* Status codes and resolved URLs the service may answer with.
StatusCodes == {200, 404, 500}
ResolvedUrls == {post_url,
                 "https://apps.gov.bc.ca/pub/geomark/geomarks/gm-A",
                 "https://apps.gov.bc.ca/pub/geomark/geomarks/gm-B"}

VARIABLES
    fields,        \* names of the dataset's fields (arcpy.ListFields)
    table,         \* the dataset: sequence of [url, geom], as persisted
    pc,            \* position of the running call
    row_total,     \* line 53
    read_count,    \* line 54, also the cursor position
    update_count,  \* line 55
    row,           \* the cursor's current row: [url, geom], row[0] and row[1]
    r,             \* the local r: Unassigned, or <<response>>
    progress,      \* pairs <<read_count, update_count>> reported at line 89
    run,           \* number of the current call of add_geomark_url
    before,        \* the table when the current call started
    posted,        \* records for which session.post was called in this call
    persisted,     \* records for which cursor.updateRow was called in this call
    origin,        \* per record: the request whose response set the value
                   \* persisted in this call (0: none)
    counted,       \* per record: the request whose response made
                   \* update_count grow while the record was processed (0: none)
    raisedFor,     \* records for which session.post raised in this call
    prevEnd,       \* how the previous call ended ("none" for the first)
    prevPersisted  \* the records the previous call persisted

vars == <<fields, table, pc, row_total, read_count, update_count, row, r,
          progress, run, before, posted, persisted, origin, counted,
          raisedFor, prevEnd, prevPersisted>>

\* The test of line 62 with "in" turned into "not in".
IsEmptyValueInverted(exist_url) == exist_url = None \/ exist_url \notin {"", " "}

\* The test of line 62 on the stripped value, so that any whitespace counts.
IsEmptyValueStripped(exist_url) == exist_url = None \/ exist_url \in WhitespaceOnly

\* The loop without the test of line 62, as before the change of 2024-08-20.
IsEmptyValueAlways(exist_url) == TRUE

\* line 62: exist_url is None or exist_url in ["", " "]
IsEmptyValue(exist_url) == exist_url = None \/ exist_url \in {"", " "}

\* Lines 77-85 without the comparison of line 79.
OutcomeNoRedirectTest(resp) ==
    IF resp.status_code = 200 THEN resp.url ELSE StatusMsg(resp.status_code)

\* lines 77-85: the value assigned to row[0] from a response
Outcome(resp) ==
    IF resp.status_code = 200
    THEN IF resp.url = post_url THEN CouldNotCreateMsg ELSE resp.url
    ELSE StatusMsg(resp.status_code)

\* lines 77-83: whether update_count is incremented for a response
Counts(resp) == resp.status_code = 200 /\ resp.url # post_url

NoRow == [url |-> None, geom |-> None]

\* The dataset before the first call.  A dataset without the GeomarkURL
\* field has no values for it: AddField creates them null.
Init ==
    /\ fields \in {{"SHAPE"}, {"SHAPE", "GeomarkURL"}}
    /\ \E n \in 1..MaxRows :
          table \in [1..n -> [url : ExistingValues, geom : Geometries]]
    /\ ("GeomarkURL" \notin fields => \A i \in DOMAIN table : table[i].url = None)
    /\ pc = "start"
    /\ row_total = 0
    /\ read_count = 0
    /\ update_count = 0
    /\ row = NoRow
    /\ r = Unassigned
    /\ progress = <<>>
    /\ run = 1
    /\ before = table
    /\ posted = {}
    /\ persisted = {}
    /\ origin = [i \in DOMAIN table |-> 0]
    /\ counted = [i \in DOMAIN table |-> 0]
    /\ raisedFor = {}
    /\ prevEnd = "none"
    /\ prevPersisted = {}

\* Everything a step of the record loop leaves alone in the call's records.
LoopBookkeeping == <<fields, row_total, progress, run, before, prevEnd, prevPersisted>>

\* lines 41-50: describe the dataset, add the GeomarkURL field if absent
ProvisionField ==
    /\ pc = "start"
    /\ fields' = IF "GeomarkURL" \notin fields
                 THEN fields \cup {"GeomarkURL"}
                 ELSE fields
    /\ pc' = "count"
    /\ UNCHANGED <<table, row_total, read_count, update_count, row, r, progress,
                   run, before, posted, persisted, origin, counted, raisedFor, prevEnd,
                   prevPersisted>>

\* lines 53-58: count the records, zero the counters, open the cursor
OpenCursor ==
    /\ pc = "count"
    /\ row_total' = Len(table)
    /\ read_count' = 0
    /\ update_count' = 0
    /\ pc' = "fetch"
    /\ UNCHANGED <<fields, table, row, r, progress, run, before, posted,
                   persisted, origin, counted, raisedFor, prevEnd, prevPersisted>>

\* lines 59-61: the cursor yields the next record
FetchRow ==
    /\ pc = "fetch"
    /\ read_count < Len(table)
    /\ read_count' = read_count + 1
    /\ row' = table[read_count + 1]
    /\ pc' = "test"
    /\ UNCHANGED <<table, update_count, r, posted, persisted, origin, counted, raisedFor>>
    /\ UNCHANGED LoopBookkeeping

\* line 59: the cursor is exhausted, the with block and the function end
CursorExhausted ==
    /\ pc = "fetch"
    /\ read_count = Len(table)
    /\ pc' = "done"
    /\ UNCHANGED <<table, read_count, update_count, row, r, posted, persisted,
                   origin, counted, raisedFor>>
    /\ UNCHANGED LoopBookkeeping

\* line 62, condition false: nothing is assigned and updateRow is not called
SkipRow ==
    /\ pc = "test"
    /\ ~IsEmptyValue(row.url)
    /\ pc' = "report"
    /\ UNCHANGED <<table, read_count, update_count, row, r, posted, persisted,
                   origin, counted, raisedFor>>
    /\ UNCHANGED LoopBookkeeping

\* lines 62-65: empty value and null geometry
NullGeometry ==
    /\ pc = "test"
    /\ IsEmptyValue(row.url)
    /\ row.geom = None
    /\ row' = [row EXCEPT !.url = NullGeometryMsg]
    /\ pc' = "update"
    /\ UNCHANGED <<table, read_count, update_count, r, posted, persisted,
                   origin, counted, raisedFor>>
    /\ UNCHANGED LoopBookkeeping

\* lines 66-74: the payload is built and session.post returns a response
PostReturns ==
    /\ pc = "test"
    /\ IsEmptyValue(row.url)
    /\ row.geom # None
    /\ \E s \in StatusCodes, u \in ResolvedUrls :
          r' = <<[status_code |-> s, url |-> u, req |-> read_count]>>
    /\ posted' = posted \cup {read_count}
    /\ pc' = "status"
    /\ UNCHANGED <<table, read_count, update_count, row, persisted, origin, counted, raisedFor>>
    /\ UNCHANGED LoopBookkeeping

\* lines 66-76: session.post raises; the except clause assigns the message
\* and r keeps whatever it was bound to, if anything
PostRaises ==
    /\ pc = "test"
    /\ IsEmptyValue(row.url)
    /\ row.geom # None
    /\ row' = [row EXCEPT !.url = RequestFailedMsg]
    /\ posted' = posted \cup {read_count}
    /\ raisedFor' = raisedFor \cup {read_count}
    /\ pc' = "status"
    /\ UNCHANGED <<table, read_count, update_count, r, persisted, origin, counted>>
    /\ UNCHANGED LoopBookkeeping

\* line 77 with r never assigned in this call: UnboundLocalError leaves the
\* loop, the with block and the function
StatusUnbound ==
    /\ pc = "status"
    /\ r = Unassigned
    /\ pc' = "raised"
    /\ UNCHANGED <<table, read_count, update_count, row, r, posted, persisted,
                   origin, counted, raisedFor>>
    /\ UNCHANGED LoopBookkeeping

\* lines 77-85: row[0] and update_count from whatever response r holds
CheckStatus ==
    /\ pc = "status"
    /\ r # Unassigned
    /\ row' = [row EXCEPT !.url = Outcome(r[1])]
    /\ update_count' = IF Counts(r[1]) THEN update_count + 1 ELSE update_count
    /\ origin' = [origin EXCEPT ![read_count] = r[1].req]
    /\ counted' = [counted EXCEPT ![read_count] = IF Counts(r[1]) THEN r[1].req ELSE 0]
    /\ pc' = "update"
    /\ UNCHANGED <<table, read_count, r, posted, persisted, raisedFor>>
    /\ UNCHANGED LoopBookkeeping

\* line 86: cursor.updateRow(row) persists row[0]
UpdateRow ==
    /\ pc = "update"
    /\ table' = [table EXCEPT ![read_count].url = row.url]
    /\ persisted' = persisted \cup {read_count}
    /\ pc' = "report"
    /\ UNCHANGED <<read_count, update_count, row, r, posted, origin, counted, raisedFor>>
    /\ UNCHANGED LoopBookkeeping

\* lines 88-90: the progress message
Report ==
    /\ pc = "report"
    /\ progress' = IF read_count % 10 = 0 \/ read_count = row_total
                   THEN Append(progress, <<read_count, update_count>>)
                   ELSE progress
    /\ pc' = "fetch"
    /\ UNCHANGED <<fields, table, row_total, read_count, update_count, row, r,
                   run, before, posted, persisted, origin, counted, raisedFor, prevEnd,
                   prevPersisted>>

\* The process is ended from outside while it is in the record loop.
Terminate ==
    /\ pc \in {"fetch", "test", "status", "update", "report"}
    /\ pc' = "stopped"
    /\ UNCHANGED <<table, read_count, update_count, row, r, posted, persisted,
                   origin, counted, raisedFor>>
    /\ UNCHANGED LoopBookkeeping

\* lines 92-94: the tool is run again on the same dataset
Rerun ==
    /\ pc \in {"done", "raised", "stopped"}
    /\ run < MaxRuns
    /\ run' = run + 1
    /\ prevEnd' = pc
    /\ prevPersisted' = persisted
    /\ before' = table
    /\ pc' = "start"
    /\ row_total' = 0
    /\ read_count' = 0
    /\ update_count' = 0
    /\ row' = NoRow
    /\ r' = Unassigned
    /\ progress' = <<>>
    /\ posted' = {}
    /\ persisted' = {}
    /\ origin' = [i \in DOMAIN table |-> 0]
    /\ counted' = [i \in DOMAIN table |-> 0]
    /\ raisedFor' = {}
    /\ UNCHANGED <<fields, table>>

Next ==
    \/ ProvisionField
    \/ OpenCursor
    \/ FetchRow
    \/ CursorExhausted
    \/ SkipRow
    \/ NullGeometry
    \/ PostReturns
    \/ PostRaises
    \/ StatusUnbound
    \/ CheckStatus
    \/ UpdateRow
    \/ Report
    \/ Terminate
    \/ Rerun

Spec == Init /\ [][Next]_vars

(* ---------- vocabulary of the properties ---------- *)

\* lines 28-31 (History 2024-08-20): the values the field is written for
EmptyValues == {None, "", " "}

\* Null, empty or whitespace-only.
IsBlank(v) == v = None \/ v \in WhitespaceOnly

\* The call has returned or has raised (it was not ended from outside).
Ended == pc \in {"done", "raised"}

\* URLs the service issues for a created Geomark.
IssuedUrls == ResolvedUrls \ {post_url}

\* The four diagnostic markers, the last one for each status code.
Markers ==
    { "Null geometry",
      "Geomark Web Service request failed - try running the tool again",
      "Could not create Geomark URL for this geometry",
      "Geomark Web Service returned status code 404; try running the tool again",
      "Geomark Web Service returned status code 500; try running the tool again" }

\* The loop has decided, for record i, between skipping and processing.
Decided(i) ==
    \/ i < read_count
    \/ i = read_count /\ pc \in {"status", "update", "report", "raised", "done"}

\* Record i went into the branch of lines 63-86.
Processed(i) ==
    \/ i \in persisted
    \/ i \in posted
    \/ i = read_count /\ pc = "update"

\* The value the claim C5 gives for a response.
ExpectedFor(resp) ==
    CASE resp.status_code = 200 /\ resp.url # "https://apps.gov.bc.ca/pub/geomark/geomarks/new"
            -> resp.url
      [] resp.status_code = 200 /\ resp.url = "https://apps.gov.bc.ca/pub/geomark/geomarks/new"
            -> "Could not create Geomark URL for this geometry"
      [] resp.status_code = 404
            -> "Geomark Web Service returned status code 404; try running the tool again"
      [] resp.status_code = 500
            -> "Geomark Web Service returned status code 500; try running the tool again"

(* ---------- C1 ---------- *)
\* C1: when a call ends, every record whose value was empty (None, "" or
\* " ") when it started has been persisted once in the call and holds an
\* issued URL or one of the diagnostic markers.
C1_EveryEmptyRecordGetsOutcome ==
    Ended =>
        \A i \in DOMAIN table :
            before[i].url \in EmptyValues =>
                /\ i \in persisted
                /\ table[i].url \in IssuedUrls \cup Markers

(* ---------- C2 ---------- *)
\* C2: when a call ends, every record whose POST raised holds the
\* request-failed message, and no response was inspected for it.
C2_TransportFailureIsTerminal ==
    Ended =>
        \A i \in raisedFor :
            /\ table[i].url = "Geomark Web Service request failed - try running the tool again"
            /\ origin[i] = 0

(* ---------- C3 ---------- *)
\* C3: no exception leaves the record loop, and a call that ends has
\* visited every record.
C3_NoExceptionEveryRecordVisited ==
    /\ pc # "raised"
    /\ (Ended => read_count = Len(table))

(* ---------- C4 ---------- *)
\* C4: a record whose value is not None, "" or " " when the call starts
\* (so every record with a non-whitespace value) keeps that value at every
\* point of the call; row[0] is not assigned, updateRow is not called and no
\* POST is issued for it.
C4_NonBlankUntouched ==
    \A i \in DOMAIN table :
        before[i].url \notin EmptyValues =>
            /\ table[i] = before[i]
            /\ i \notin posted
            /\ i \notin persisted
            /\ (i = read_count /\ pc \in {"test", "status", "update", "report"}
                    => row = before[i])

\* C4 witness: a call has run to its end over a dataset holding a record
\* with an existing URL and a geometry, and has issued a POST for another.
C4_Witness ==
    /\ pc = "done"
    /\ posted # {}
    /\ \E i \in DOMAIN table :
          /\ before[i].url = "https://apps.gov.bc.ca/pub/geomark/geomarks/gm-OLD"
          /\ before[i].geom # None

(* ---------- C5 ---------- *)
\* C5: once the record whose POST returned the response held by r has been
\* persisted, its value is the one the response's status and resolved URL
\* determine: the resolved URL for 200 with a redirect, the could-not-create
\* message for 200 without, the status-code message otherwise; it is never
\* the request endpoint.
C5_ValueFromResponse ==
    (r # Unassigned /\ r[1].req \in persisted) =>
        /\ table[r[1].req].url = ExpectedFor(r[1])
        /\ table[r[1].req].url # "https://apps.gov.bc.ca/pub/geomark/geomarks/new"

\* C5 witness: a record's POST returned 200 with a redirect and the record
\* has been persisted.
C5_Witness ==
    /\ r # Unassigned
    /\ r[1].req \in persisted
    /\ r[1].status_code = 200
    /\ r[1].url = "https://apps.gov.bc.ca/pub/geomark/geomarks/gm-A"
    /\ pc = "done"

(* ---------- C6 ---------- *)
\* C6: when a call ends, every record that had an empty value and a null
\* geometry holds "Null geometry", and no POST was issued for it.
C6_NullGeometryMarked ==
    Ended =>
        \A i \in DOMAIN table :
            (before[i].url \in EmptyValues /\ before[i].geom = None) =>
                /\ table[i].url = "Null geometry"
                /\ i \notin posted

(* ---------- C7 ---------- *)
\* C7: a call that follows a call that ended (returned or raised) issues no
\* POST and changes no value.
C7_SecondRunIdle ==
    (run > 1 /\ prevEnd \in {"done", "raised"}) =>
        /\ posted = {}
        /\ table = before

(* ---------- C8 ---------- *)
\* C8 as stated: a visited record is skipped exactly when its value is
\* non-empty and not whitespace-only.
C8_SkipIffNotWhitespaceOnly ==
    \A i \in DOMAIN table :
        Decided(i) => (Processed(i) <=> IsBlank(before[i].url))

\* C8 amended: a visited record is skipped exactly when its value is not
\* None, "" or " "; a value of several spaces or of other whitespace is
\* skipped.
C8_SkipIffNotInEmptyValues ==
    \A i \in DOMAIN table :
        Decided(i) => (Processed(i) <=> before[i].url \in EmptyValues)

\* C8 witness: a record holding two spaces has been visited and skipped.
C8_Witness ==
    /\ pc = "report"
    /\ before[read_count].url = "  "
    /\ read_count \notin persisted
    /\ read_count \notin posted

(* ---------- C9 ---------- *)
\* At every point of a call, a record not persisted in it holds its value
\* from before the call, the record being processed included.
C9_UnpersistedKeepBefore ==
    \A i \in DOMAIN table : i \notin persisted => table[i] = before[i]

\* A step changes a record of the dataset only by updateRow, for the record
\* under the cursor, to row[0], and only if it was not persisted before.
C9_OnlyUpdateRowWrites ==
    \A i \in DOMAIN table :
        table'[i] # table[i] =>
            /\ pc = "update"
            /\ i = read_count
            /\ i \notin persisted
            /\ table'[i] = [table[i] EXCEPT !.url = row.url]

\* A call that follows a call stopped in the record loop (ended from
\* outside, or by an exception) issues POSTs only for records still empty,
\* and keeps what the stopped call persisted.
C9_ResumeAfterStop ==
    (run > 1 /\ prevEnd \in {"stopped", "raised"}) =>
        \A i \in DOMAIN table :
            /\ (i \in posted => before[i].url \in EmptyValues)
            /\ (i \in prevPersisted => table[i] = before[i])

\* C9: a call stopped at any point of the record loop leaves persisted
\* records with the value written for them and the others as they were
\* before it; the next call POSTs only for records still blank and never
\* changes a value the stopped call wrote.
C9_StopAndResume ==
    /\ [](C9_UnpersistedKeepBefore /\ C9_ResumeAfterStop)
    /\ [][C9_OnlyUpdateRowWrites]_vars

\* C9 witness: a call was stopped after persisting a record, and the next
\* call has issued a POST for another record and run to its end.
C9_Witness ==
    /\ run > 1
    /\ prevEnd = "stopped"
    /\ prevPersisted # {}
    /\ posted # {}
    /\ pc = "done"

(* ---------- C10 ---------- *)
\* C10: every value set from a response, and every increment of
\* update_count, comes from the response to the POST issued for the same
\* record.
C10_ResponseOfSameRecord ==
    \A i \in DOMAIN table :
        /\ origin[i] \in {0, i}
        /\ counted[i] \in {0, i}

====
